---- MODULE Spec2Model ----
(***************************************************************************)
(* Model of the chunk lifecycle manager (class World) of mine.js:          *)
(* camera-chunk tracking, region fill, readiness sweep, the bounded        *)
(* mesh/generation scheduler and voxel edits with boundary propagation.    *)
(* One tick of the engine is one atomic step (JavaScript runs a handler to *)
(* completion); generator promises and mesh builds complete between ticks. *)
(***************************************************************************)
EXTENDS Integers, Sequences, FiniteSets, TLC

\* ------------------------------------------------------------------ options
chunkSize == 32
chunkPadding == 2
maxChunkPerFrame == 1
defaultWorldOptions == [chunkSize |-> chunkSize, chunkPadding |-> chunkPadding]

\* ------------------------------------------------------------------- bounds
MaxRadius == 1
MaxTicks == 2
\* ticks and setVoxel calls in the runs that edit voxels (SpecEdit)
MaxEditTicks == 1
MaxWrites == 1
\* ticks in the runs at render radius 0 with edits and mesh builds (SpecNear)
MaxNearTicks == 3
\* ticks of a camera that travels along the x axis (SpecTravel)
MaxTravelTicks == 4
\* the chunk coordinates whose names are formed and parsed (SpecName)
MaxCoord == 10
\* the largest chunkSize and chunkPadding a World is constructed with
\* (SpecConfig)
MaxSize == 3
MaxPadding == 2

RadiusSet == 0..MaxRadius
\* voxel positions the camera is observed at
CamVoxels == {<<0, 0, 0>>, <<-1, 0, 0>>}
\* voxel positions that are edited, and the block types written
VoxelInputs == {<<1, 5, 5>>, <<0, 0, 31>>, <<64, 5, 5>>, <<-1, 5, 5>>}
Types == {1}
\* the voxels edited in SpecNear: one inside chunk (0,0,0) and in the margin
\* of chunk (-1,0,0), one inside chunk (-1,0,0) only
NearVoxels == {<<1, 5, 5>>, <<-10, 5, 5>>}
\* chunk coordinates, names and voxels that are looked up (SpecLookup)
LookupCoords == {<<0, 0, 0>>, <<-1, 0, 0>>, <<2, 0, 0>>}
LookupNames == {<<"0", "|", "0", "|", "0">>, <<"2", "|", "0", "|", "0">>,
                <<"0", "|", "0">>}
LookupVoxels == {<<1, 5, 5>>, <<64, 5, 5>>, <<-1, 5, 5>>}
\* the voxels a camera travelling along the x axis is observed at
TravelVoxels == {<<x * chunkSize, 0, 0>> : x \in 0..MaxTravelTicks}
\* chunk coordinates of one and of two digits, of either sign
NameCoords ==
  {0 - MaxCoord, 1 - MaxCoord, -2, -1, 0, 1, 2, MaxCoord - 1, MaxCoord}
\* the voxels the camera of SpecName starts at: one in each of those chunks
NameCamVoxels ==
  {<<x * chunkSize, y * chunkSize + 5, z * chunkSize + 31>> :
     x \in NameCoords, y \in NameCoords, z \in NameCoords}

VARIABLES
  heap,          \* the Chunk objects, by identity (1..Len(heap))
  chunks,        \* SmartDictionary<Chunk>: chunk name -> identity
  dirtyChunks,   \* the work queue, a sequence of Chunk identities
  camChunkName,  \* name of the chunk last seen to hold the camera
  camChunkPos,   \* its coordinates
  renderRadius,  \* options.renderRadius
  hasGenerator,  \* whether this.generator was constructed
  generating,    \* per Chunk: generate() promises not yet resolved
  ticks,         \* number of ticks run
  writes,        \* number of setVoxel calls made
  lastOp,        \* the last tick or setVoxel call and its inputs
  log,           \* calls and signals made by the last tick, in order
  drainStart,    \* the queue, and the flags of its chunks, as the last drain began
  unbuilt,       \* per Chunk: its voxel data changed since its last build
                 \* started, or no build of it ever started
  drained,       \* per iteration of the last drain: the chunk shifted off the
                 \* queue, its flags at that moment and the rest of the queue
  written,       \* Chunk identities the last setVoxel wrote into, in order
  returned,      \* the last lookup: its name, its argument (a chunk name
                 \* or coordinates) and what it returned
  options        \* options.chunkSize and options.chunkPadding as constructed

vars == <<heap, chunks, dirtyChunks, camChunkName, camChunkPos, renderRadius,
          hasGenerator, generating, ticks, writes, lastOp, log, drainStart,
          unbuilt, drained, written, returned, options>>

\* ------------------------------------------------------------------ Helper
Undefined == <<>>
NoChunk == 0
\* null, where a voxel type (a non-negative block id) was asked for
Null == -1

DigitChars == <<"0", "1", "2", "3", "4", "5", "6", "7", "8", "9">>

RECURSIVE NatToChars(_)
NatToChars(n) ==
  IF n < 10 THEN <<DigitChars[n + 1]>>
  ELSE NatToChars(n \div 10) \o <<DigitChars[(n % 10) + 1]>>

IntToChars(n) == IF n < 0 THEN <<"-">> \o NatToChars(0 - n) ELSE NatToChars(n)

\* coords[0] + concat + coords[1] + concat + coords[2]
getChunkNameSep(coords, concat) ==
  IntToChars(coords[1]) \o <<concat>> \o IntToChars(coords[2]) \o <<concat>>
    \o IntToChars(coords[3])

getChunkName(coords) == getChunkNameSep(coords, "|")

\* what parseInt makes of a string that does not start with a number
NaN == -1000000

DigitValue(c) == (CHOOSE i \in 1..10 : DigitChars[i] = c) - 1

\* the number that the leading digits of chars spell, after the digits acc
RECURSIVE DigitsToNat(_, _)
DigitsToNat(chars, acc) ==
  IF chars = <<>> \/ ~(\E i \in 1..10 : DigitChars[i] = Head(chars)) THEN acc
  ELSE DigitsToNat(Tail(chars), 10 * acc + DigitValue(Head(chars)))

StartsWithDigit(chars) ==
  chars # <<>> /\ \E i \in 1..10 : DigitChars[i] = Head(chars)

\* parseInt(chars, 10): an optional sign, then the leading digits
ParseInt(chars) ==
  IF StartsWithDigit(chars) THEN DigitsToNat(chars, 0)
  ELSE IF chars # <<>> /\ Head(chars) = "-" /\ StartsWithDigit(Tail(chars))
    THEN 0 - DigitsToNat(Tail(chars), 0)
  ELSE NaN

\* chars.split(concat): the pieces between the separators; cur is the piece
\* being read
RECURSIVE Split(_, _, _)
Split(chars, concat, cur) ==
  IF chars = <<>> THEN <<cur>>
  ELSE IF Head(chars) = concat THEN <<cur>> \o Split(Tail(chars), concat, <<>>)
  ELSE Split(Tail(chars), concat, Append(cur, Head(chars)))

\* name.split(concat).map((s) => parseInt(s, 10))
parseChunkName(name, concat) ==
  LET pieces == Split(name, concat, <<>>)
  IN [i \in 1..Len(pieces) |-> ParseInt(pieces[i])]

\* floor division of each voxel coordinate by the chunk size
mapVoxelPosToChunkPos(vCoords, size) ==
  <<vCoords[1] \div size, vCoords[2] \div size, vCoords[3] \div size>>

\* the corresponding non-negative remainder
mapVoxelPosToChunkLocalPos(vCoords, size) ==
  <<vCoords[1] % size, vCoords[2] % size, vCoords[3] % size>>

\* --------------------------------------------------------------------- Chunk
\* a Chunk as constructed: dirty, uninitialized, nothing in flight
NewChunk(coords) ==
  [coords |-> coords, name |-> getChunkName(coords),
   isInitialized |-> FALSE, isPending |-> FALSE, isDirty |-> TRUE,
   isMeshing |-> FALSE, isAdded |-> FALSE, isEmpty |-> TRUE,
   voxels |-> <<>>]

\* the voxels a chunk stores: its own cube plus the padding margin
ChunkContains(ch, v) ==
  \A i \in 1..3 :
    /\ v[i] >= ch.coords[i] * chunkSize - chunkPadding
    /\ v[i] < (ch.coords[i] + 1) * chunkSize + chunkPadding

\* voxels holds the voxels written so far; every other voxel is air (0)
ChunkGetVoxel(ch, v) == IF v \in DOMAIN ch.voxels THEN ch.voxels[v] ELSE 0

ChunkSetVoxel(ch, v, type) ==
  IF ChunkContains(ch, v)
    THEN [ch EXCEPT !.voxels = (v :> type) @@ @, !.isDirty = TRUE]
    ELSE ch

\* buildMesh(): the build is in flight until MeshBuilt
ChunkBuildMesh(ch) == [ch EXCEPT !.isMeshing = TRUE]

ChunkAddToScene(ch) == [ch EXCEPT !.isAdded = TRUE]

ChunkInitialized(ch) == [ch EXCEPT !.isInitialized = TRUE]

ChunkMeshBuilt(ch) ==
  [ch EXCEPT !.isDirty = FALSE, !.isMeshing = FALSE, !.isAdded = TRUE]

\* --------------------------------------------------------------------- World
\* The mutable fields of a World together with what a tick reports, as one
\* record, so that the methods below are functions from World to World.
Ev(kind, id, pos) == [ev |-> kind, id |-> id, pos |-> pos]

getChunkByNameIn(w, chunkName) ==
  IF chunkName \in DOMAIN w.chunks THEN w.chunks[chunkName] ELSE NoChunk

getChunkByCPosIn(w, cCoords) == getChunkByNameIn(w, getChunkName(cCoords))

getChunkByVoxelIn(w, vCoords) ==
  getChunkByCPosIn(w, mapVoxelPosToChunkPos(vCoords, chunkSize))

\* a lookup of a voxel that takes an absent chunk for a chunk of air
getVoxelByVoxelAir(w, vCoords) ==
  LET chunk == getChunkByVoxelIn(w, vCoords)
  IN IF chunk # NoChunk THEN ChunkGetVoxel(w.heap[chunk], vCoords) ELSE 0

getVoxelByVoxel(w, vCoords) ==
  LET chunk == getChunkByVoxelIn(w, vCoords)
  IN IF chunk # NoChunk THEN ChunkGetVoxel(w.heap[chunk], vCoords) ELSE Null

\* the sphere test with the boundary left out
InSphereStrict(c, p, r) ==
  LET dx == p[1] - c[1]
      dy == p[2] - c[2]
      dz == p[3] - c[3]
  IN ~(dx * dx + dy * dy + dz * dz >= r * r)

\* no sphere test: the whole cube of the loops
InSphereCube(c, p, r) == TRUE

\* x - cx, y - cy, z - cz inside the sphere of radius r
InSphere(c, p, r) ==
  LET dx == p[1] - c[1]
      dy == p[2] - c[2]
      dz == p[3] - c[3]
  IN ~(dx * dx + dy * dy + dz * dz > r * r)

setChunk(w, id) ==
  [w EXCEPT !.chunks = (w.heap[id].name :> id) @@ @]

\* a fill that constructs a chunk whether or not one is stored
ChunkMissingAlways(w, p) == TRUE

\* if (!chunk)
ChunkMissing(w, p) == getChunkByCPosIn(w, p) = NoChunk

\* a loop body that pushes the new chunk onto the rear of the queue
SurroundStepRear(w, p) ==
  IF ~InSphere(w.camChunkPos, p, w.renderRadius) THEN w
  ELSE IF ~ChunkMissing(w, p) THEN w
  ELSE
    LET id == Len(w.heap) + 1
        w1 == [w EXCEPT !.heap = Append(@, NewChunk(p)),
                        !.generating = Append(@, 0),
                        !.unbuilt = Append(@, TRUE)]
        w2 == setChunk(w1, id)
    IN [w2 EXCEPT !.dirtyChunks = Append(@, id),
                  !.log = Append(@, Ev("create", id, p))]

\* one loop body of surroundCamChunks
SurroundStep(w, p) ==
  IF ~InSphere(w.camChunkPos, p, w.renderRadius) THEN w
  ELSE IF ~ChunkMissing(w, p) THEN w
  ELSE
    LET id == Len(w.heap) + 1
        w1 == [w EXCEPT !.heap = Append(@, NewChunk(p)),
                        !.generating = Append(@, 0),
                        !.unbuilt = Append(@, TRUE)]
        w2 == setChunk(w1, id)
    IN [w2 EXCEPT !.dirtyChunks = <<id>> \o @,
                  !.log = Append(@, Ev("create", id, p))]

\* for (let z = cz - renderRadius; z <= cz + renderRadius; z++)
RECURSIVE SurroundZ(_, _, _, _)
SurroundZ(w, x, y, z) ==
  IF ~(z <= w.camChunkPos[3] + w.renderRadius) THEN w
  ELSE SurroundZ(SurroundStep(w, <<x, y, z>>), x, y, z + 1)

\* for (let y = cy - renderRadius; y <= cy + renderRadius; y++)
RECURSIVE SurroundY(_, _, _)
SurroundY(w, x, y) ==
  IF ~(y <= w.camChunkPos[2] + w.renderRadius) THEN w
  ELSE SurroundY(SurroundZ(w, x, y, w.camChunkPos[3] - w.renderRadius), x, y + 1)

\* for (let x = cx - renderRadius; x <= cx + renderRadius; x++)
RECURSIVE SurroundX(_, _)
SurroundX(w, x) ==
  IF ~(x <= w.camChunkPos[1] + w.renderRadius) THEN w
  ELSE SurroundX(SurroundY(w, x, w.camChunkPos[2] - w.renderRadius), x + 1)

surroundCamChunks(w) == SurroundX(w, w.camChunkPos[1] - w.renderRadius)

\* a sweep that does not look at isInitialized
SweepDecisionNoInit(ch) ==
  IF ~ch.isDirty
    THEN IF ~ch.isAdded THEN "addToScene" ELSE "none"
    ELSE IF ~ch.isMeshing THEN "buildMesh" ELSE "none"

\* a sweep that adds an initialized chunk to the scene while it is dirty
SweepDecisionAddDirty(ch) ==
  IF ch.isInitialized
    THEN IF ~ch.isAdded THEN "addToScene"
           ELSE IF ch.isDirty /\ ~ch.isMeshing THEN "buildMesh" ELSE "none"
    ELSE "none"

\* what the sweep does with an existing chunk in range
SweepDecision(ch) ==
  IF ch.isInitialized
    THEN IF ~ch.isDirty
           THEN IF ~ch.isAdded THEN "addToScene" ELSE "none"
           ELSE IF ~ch.isMeshing THEN "buildMesh" ELSE "none"
    ELSE "none"

\* one loop body of the sweep in checkCamChunk
SweepStep(w, p) ==
  IF ~InSphere(w.camChunkPos, p, w.renderRadius) THEN w
  ELSE
    LET id == getChunkByCPosIn(w, p)
        w0 == [w EXCEPT !.log = Append(@, Ev("sweep", id, p))]
    IN IF id = NoChunk THEN w0
       ELSE IF SweepDecision(w0.heap[id]) = "addToScene"
         THEN [w0 EXCEPT !.heap[id] = ChunkAddToScene(@),
                         !.log = Append(@, Ev("addToScene", id, p))]
       ELSE IF SweepDecision(w0.heap[id]) = "buildMesh"
         THEN [w0 EXCEPT !.heap[id] = ChunkBuildMesh(@),
                         !.unbuilt[id] = FALSE,
                         !.log = Append(@, Ev("sweepBuild", id, p))]
       ELSE w0

RECURSIVE SweepZ(_, _, _, _)
SweepZ(w, x, y, z) ==
  IF ~(z <= w.camChunkPos[3] + w.renderRadius) THEN w
  ELSE SweepZ(SweepStep(w, <<x, y, z>>), x, y, z + 1)

RECURSIVE SweepY(_, _, _)
SweepY(w, x, y) ==
  IF ~(y <= w.camChunkPos[2] + w.renderRadius) THEN w
  ELSE SweepY(SweepZ(w, x, y, w.camChunkPos[3] - w.renderRadius), x, y + 1)

RECURSIVE SweepX(_, _)
SweepX(w, x) ==
  IF ~(x <= w.camChunkPos[1] + w.renderRadius) THEN w
  ELSE SweepX(SweepY(w, x, w.camChunkPos[2] - w.renderRadius), x + 1)

\* the sweep of checkCamChunk over the region around camChunkPos
SweepLoop(w) == SweepX(w, w.camChunkPos[1] - w.renderRadius)

\* a position string that drops the signs
camChunkPosStrAbs(w) ==
  LET Abs(n) == IF n < 0 THEN 0 - n ELSE n
  IN NatToChars(Abs(w.camChunkPos[1])) \o <<" ">>
       \o NatToChars(Abs(w.camChunkPos[2])) \o <<" ">>
       \o NatToChars(Abs(w.camChunkPos[3]))

\* `${camChunkPos[0]} ${camChunkPos[1]} ${camChunkPos[2]}`
camChunkPosStr(w) ==
  IntToChars(w.camChunkPos[1]) \o <<" ">> \o IntToChars(w.camChunkPos[2])
    \o <<" ">> \o IntToChars(w.camChunkPos[3])

\* a tracker that sweeps the region before it fills it
checkCamChunkSweepFirst(w, pos) ==
  LET chunkPos == mapVoxelPosToChunkPos(pos, chunkSize)
      chunkName == getChunkName(chunkPos)
  IN IF chunkName # w.camChunkName
       THEN surroundCamChunks(SweepLoop(
              [w EXCEPT !.log = Append(@, Ev("chunk-changed", NoChunk, chunkPos)),
                        !.camChunkName = chunkName,
                        !.camChunkPos = chunkPos]))
       ELSE SweepLoop(w)

\* a tracker that takes every tick as a change of camera chunk
checkCamChunkAlways(w, pos) ==
  LET chunkPos == mapVoxelPosToChunkPos(pos, chunkSize)
      chunkName == getChunkName(chunkPos)
      w1 == surroundCamChunks(
              [w EXCEPT !.log = Append(@, Ev("chunk-changed", NoChunk, chunkPos)),
                        !.camChunkName = chunkName,
                        !.camChunkPos = chunkPos])
  IN SweepLoop(w1)

checkCamChunk(w, pos) ==
  LET chunkPos == mapVoxelPosToChunkPos(pos, chunkSize)
      chunkName == getChunkName(chunkPos)
      w1 == IF chunkName # w.camChunkName
              THEN surroundCamChunks(
                     [w EXCEPT !.log = Append(@, Ev("chunk-changed", NoChunk, chunkPos)),
                               !.camChunkName = chunkName,
                               !.camChunkPos = chunkPos])
              ELSE w
  IN SweepLoop(w1)

\* a request that marks the chunk clean where it should mark it non-empty
requestChunkDataClean(w, id) ==
  IF ~w.hasGenerator
    THEN [w EXCEPT !.heap[id].isDirty = FALSE,
                   !.heap[id].isPending = TRUE,
                   !.log = Append(@, Ev("data-needed", id, w.heap[id].coords))]
    ELSE [w EXCEPT !.generating[id] = @ + 1,
                   !.heap[id].isDirty = FALSE,
                   !.log = Append(@, Ev("generate", id, w.heap[id].coords))]

\* a request that leaves isPending alone when there is no generator
requestChunkDataNoPending(w, id) ==
  IF ~w.hasGenerator
    THEN [w EXCEPT !.heap[id].isEmpty = FALSE,
                   !.log = Append(@, Ev("data-needed", id, w.heap[id].coords))]
    ELSE [w EXCEPT !.generating[id] = @ + 1,
                   !.log = Append(@, Ev("generate", id, w.heap[id].coords))]

requestChunkData(w, id) ==
  IF ~w.hasGenerator
    THEN [w EXCEPT !.heap[id].isEmpty = FALSE,
                   !.heap[id].isPending = TRUE,
                   !.log = Append(@, Ev("data-needed", id, w.heap[id].coords))]
    ELSE [w EXCEPT !.generating[id] = @ + 1,
                   !.log = Append(@, Ev("generate", id, w.heap[id].coords))]

\* a loop condition that runs one iteration more
DrainContinuesOneMore(w, count) ==
  count <= maxChunkPerFrame + 1 /\ Len(w.dirtyChunks) > 0

\* the condition of the while loop of meshDirtyChunks
DrainContinues(w, count) ==
  count <= maxChunkPerFrame /\ Len(w.dirtyChunks) > 0

\* requeueing at the front
RequeueFront(queue, id) == <<id>> \o queue

\* not requeueing
RequeueDrop(queue, id) == queue

\* pushing the chunk twice
RequeueTwice(queue, id) == Append(Append(queue, id), id)

\* this.dirtyChunks.push(chunk)
Requeue(queue, id) == Append(queue, id)

\* a drain that starts a build without looking at isMeshing
DrainDecisionIgnoreMeshing(ch) ==
  IF ch.isPending THEN "requeue"
  ELSE IF ~ch.isInitialized THEN "request"
  ELSE "buildMesh"

\* a drain that keeps a chunk whose build is in flight in the queue
DrainDecisionKeepMeshing(ch) ==
  IF ch.isPending THEN "requeue"
  ELSE IF ~ch.isInitialized THEN "request"
  ELSE IF ch.isMeshing THEN "requeue"
  ELSE "buildMesh"

\* a drain that gives up on a chunk that is waiting for its data
DrainDecisionDropPending(ch) ==
  IF ch.isPending THEN "drop"
  ELSE IF ~ch.isInitialized THEN "request"
  ELSE IF ch.isMeshing THEN "drop"
  ELSE "buildMesh"

\* a drain that lets go of a chunk that is not initialized
DrainDecisionDropUninitialized(ch) ==
  IF ch.isPending THEN "requeue"
  ELSE IF ~ch.isInitialized THEN "drop"
  ELSE IF ch.isMeshing THEN "drop"
  ELSE "buildMesh"

\* the branch the body of the while loop takes for the chunk shifted off
DrainDecision(ch) ==
  IF ch.isPending THEN "requeue"
  ELSE IF ~ch.isInitialized THEN "request"
  ELSE IF ch.isMeshing THEN "drop"
  ELSE "buildMesh"

\* the while loop of meshDirtyChunks
RECURSIVE DrainLoop(_, _)
DrainLoop(w, count) ==
  IF ~DrainContinues(w, count) THEN w
  ELSE
    LET id == Head(w.dirtyChunks)
        w1 == [w EXCEPT !.dirtyChunks = Tail(@),
                        !.log = Append(@, Ev("pop", id, w.heap[id].coords)),
                        !.drained = Append(@, [id |-> id,
                                               isPending |-> w.heap[id].isPending,
                                               isInitialized |-> w.heap[id].isInitialized,
                                               isMeshing |-> w.heap[id].isMeshing,
                                               rest |-> Tail(w.dirtyChunks)])]
    IN IF DrainDecision(w1.heap[id]) = "requeue"
         THEN DrainLoop([w1 EXCEPT !.dirtyChunks = Requeue(@, id)], count + 1)
       ELSE IF DrainDecision(w1.heap[id]) = "request"
         THEN DrainLoop([requestChunkData(w1, id) EXCEPT
                           !.dirtyChunks = Requeue(@, id)], count + 1)
       ELSE IF DrainDecision(w1.heap[id]) = "drop"
         THEN DrainLoop(w1, count + 1)
       ELSE DrainLoop([w1 EXCEPT !.heap[id] = ChunkBuildMesh(@),
                                 !.unbuilt[id] = FALSE,
                                 !.log = Append(@, Ev("drainBuild", id, w1.heap[id].coords))],
                      count + 1)

meshDirtyChunks(w) ==
  IF Len(w.dirtyChunks) > 0 THEN DrainLoop(w, 0) ELSE w

\* neighbor coordinates with an edge-diagonal neighbor added when two
\* margins are hit
NeighborCoordsDiagonal(cp, lp) ==
  LET a == lp[1] < chunkPadding
      b == lp[2] < chunkPadding
      c == lp[3] < chunkPadding
      d == lp[1] >= chunkSize - chunkPadding
      e == lp[2] >= chunkSize - chunkPadding
      f == lp[3] >= chunkSize - chunkPadding
  IN (IF a THEN <<<<cp[1] - 1, cp[2], cp[3]>>>> ELSE <<>>)
     \o (IF b THEN <<<<cp[1], cp[2] - 1, cp[3]>>>> ELSE <<>>)
     \o (IF c THEN <<<<cp[1], cp[2], cp[3] - 1>>>> ELSE <<>>)
     \o (IF d THEN <<<<cp[1] + 1, cp[2], cp[3]>>>> ELSE <<>>)
     \o (IF e THEN <<<<cp[1], cp[2] + 1, cp[3]>>>> ELSE <<>>)
     \o (IF f THEN <<<<cp[1], cp[2], cp[3] + 1>>>> ELSE <<>>)
     \o (IF a /\ b THEN <<<<cp[1] - 1, cp[2] - 1, cp[3]>>>> ELSE <<>>)

\* the coordinates looked up by getNeighborChunksByVoxel, in push order
NeighborCoords(cp, lp) ==
  LET a == lp[1] < chunkPadding
      b == lp[2] < chunkPadding
      c == lp[3] < chunkPadding
      d == lp[1] >= chunkSize - chunkPadding
      e == lp[2] >= chunkSize - chunkPadding
      f == lp[3] >= chunkSize - chunkPadding
  IN (IF a THEN <<<<cp[1] - 1, cp[2], cp[3]>>>> ELSE <<>>)
     \o (IF b THEN <<<<cp[1], cp[2] - 1, cp[3]>>>> ELSE <<>>)
     \o (IF c THEN <<<<cp[1], cp[2], cp[3] - 1>>>> ELSE <<>>)
     \o (IF d THEN <<<<cp[1] + 1, cp[2], cp[3]>>>> ELSE <<>>)
     \o (IF e THEN <<<<cp[1], cp[2] + 1, cp[3]>>>> ELSE <<>>)
     \o (IF f THEN <<<<cp[1], cp[2], cp[3] + 1>>>> ELSE <<>>)

getNeighborChunksByVoxel(w, vCoords) ==
  LET cp == mapVoxelPosToChunkPos(vCoords, chunkSize)
      lp == mapVoxelPosToChunkLocalPos(vCoords, chunkSize)
      coords == NeighborCoords(cp, lp)
      neighborChunks == [i \in 1..Len(coords) |-> getChunkByCPosIn(w, coords[i])]
      Present(x) == x # NoChunk
  IN SelectSeq(neighborChunks, Present)

RECURSIVE WriteAll(_, _, _, _)
WriteAll(hp, ids, vCoords, type) ==
  IF ids = <<>> THEN hp
  ELSE WriteAll([hp EXCEPT ![Head(ids)] = ChunkSetVoxel(@, vCoords, type)],
                Tail(ids), vCoords, type)

\* World.setVoxel: the chunks written, in order
setVoxelTargets(w, vCoords) ==
  LET chunk == getChunkByVoxelIn(w, vCoords)
  IN (IF chunk # NoChunk THEN <<chunk>> ELSE <<>>)
       \o getNeighborChunksByVoxel(w, vCoords)

\* ---------------------------------------- a World constructed with options
\* The operators above read the default chunkSize and chunkPadding; the ones
\* below read them from the options o the World was constructed with.

\* the voxels stored by a chunk of size o.chunkSize and padding o.chunkPadding
ChunkContainsOpt(o, ch, v) ==
  \A i \in 1..3 :
    /\ v[i] >= ch.coords[i] * o.chunkSize - o.chunkPadding
    /\ v[i] < (ch.coords[i] + 1) * o.chunkSize + o.chunkPadding

ChunkSetVoxelOpt(o, ch, v, type) ==
  IF ChunkContainsOpt(o, ch, v)
    THEN [ch EXCEPT !.voxels = (v :> type) @@ @, !.isDirty = TRUE]
    ELSE ch

\* neighbor coordinates with an edge-diagonal neighbor added when two
\* margins are hit
NeighborCoordsOptDiagonal(o, cp, lp) ==
  LET a == lp[1] < o.chunkPadding
      b == lp[2] < o.chunkPadding
      c == lp[3] < o.chunkPadding
      d == lp[1] >= o.chunkSize - o.chunkPadding
      e == lp[2] >= o.chunkSize - o.chunkPadding
      f == lp[3] >= o.chunkSize - o.chunkPadding
  IN (IF a THEN <<<<cp[1] - 1, cp[2], cp[3]>>>> ELSE <<>>)
     \o (IF b THEN <<<<cp[1], cp[2] - 1, cp[3]>>>> ELSE <<>>)
     \o (IF c THEN <<<<cp[1], cp[2], cp[3] - 1>>>> ELSE <<>>)
     \o (IF d THEN <<<<cp[1] + 1, cp[2], cp[3]>>>> ELSE <<>>)
     \o (IF e THEN <<<<cp[1], cp[2] + 1, cp[3]>>>> ELSE <<>>)
     \o (IF f THEN <<<<cp[1], cp[2], cp[3] + 1>>>> ELSE <<>>)
     \o (IF a /\ b THEN <<<<cp[1] + 1, cp[2], cp[3]>>>> ELSE <<>>)

\* neighbor coordinates with the x neighbors taken on the opposite side
NeighborCoordsOptSwapped(o, cp, lp) ==
  LET a == lp[1] < o.chunkPadding
      b == lp[2] < o.chunkPadding
      c == lp[3] < o.chunkPadding
      d == lp[1] >= o.chunkSize - o.chunkPadding
      e == lp[2] >= o.chunkSize - o.chunkPadding
      f == lp[3] >= o.chunkSize - o.chunkPadding
  IN (IF a THEN <<<<cp[1] + 1, cp[2], cp[3]>>>> ELSE <<>>)
     \o (IF b THEN <<<<cp[1], cp[2] - 1, cp[3]>>>> ELSE <<>>)
     \o (IF c THEN <<<<cp[1], cp[2], cp[3] - 1>>>> ELSE <<>>)
     \o (IF d THEN <<<<cp[1] - 1, cp[2], cp[3]>>>> ELSE <<>>)
     \o (IF e THEN <<<<cp[1], cp[2] + 1, cp[3]>>>> ELSE <<>>)
     \o (IF f THEN <<<<cp[1], cp[2], cp[3] + 1>>>> ELSE <<>>)

\* the coordinates looked up by getNeighborChunksByVoxel, in push order
NeighborCoordsOpt(o, cp, lp) ==
  LET a == lp[1] < o.chunkPadding
      b == lp[2] < o.chunkPadding
      c == lp[3] < o.chunkPadding
      d == lp[1] >= o.chunkSize - o.chunkPadding
      e == lp[2] >= o.chunkSize - o.chunkPadding
      f == lp[3] >= o.chunkSize - o.chunkPadding
  IN (IF a THEN <<<<cp[1] - 1, cp[2], cp[3]>>>> ELSE <<>>)
     \o (IF b THEN <<<<cp[1], cp[2] - 1, cp[3]>>>> ELSE <<>>)
     \o (IF c THEN <<<<cp[1], cp[2], cp[3] - 1>>>> ELSE <<>>)
     \o (IF d THEN <<<<cp[1] + 1, cp[2], cp[3]>>>> ELSE <<>>)
     \o (IF e THEN <<<<cp[1], cp[2] + 1, cp[3]>>>> ELSE <<>>)
     \o (IF f THEN <<<<cp[1], cp[2], cp[3] + 1>>>> ELSE <<>>)

getNeighborChunksByVoxelOpt(w, o, vCoords) ==
  LET cp == mapVoxelPosToChunkPos(vCoords, o.chunkSize)
      lp == mapVoxelPosToChunkLocalPos(vCoords, o.chunkSize)
      coords == NeighborCoordsOpt(o, cp, lp)
      neighborChunks == [i \in 1..Len(coords) |-> getChunkByCPosIn(w, coords[i])]
      Present(x) == x # NoChunk
  IN SelectSeq(neighborChunks, Present)

RECURSIVE WriteAllOpt(_, _, _, _, _)
WriteAllOpt(o, hp, ids, vCoords, type) ==
  IF ids = <<>> THEN hp
  ELSE WriteAllOpt(o, [hp EXCEPT ![Head(ids)] = ChunkSetVoxelOpt(o, @, vCoords, type)],
                   Tail(ids), vCoords, type)

\* World.setVoxel: the chunks written, in order
setVoxelTargetsOpt(w, o, vCoords) ==
  LET chunk == getChunkByCPosIn(w, mapVoxelPosToChunkPos(vCoords, o.chunkSize))
  IN (IF chunk # NoChunk THEN <<chunk>> ELSE <<>>)
       \o getNeighborChunksByVoxelOpt(w, o, vCoords)

\* ------------------------------------------------------------- state machine
World == [heap |-> heap, chunks |-> chunks, dirtyChunks |-> dirtyChunks,
          camChunkName |-> camChunkName, camChunkPos |-> camChunkPos,
          renderRadius |-> renderRadius, hasGenerator |-> hasGenerator,
          generating |-> generating, log |-> log, drained |-> drained,
          unbuilt |-> unbuilt]

Init ==
  /\ heap = <<>>
  /\ chunks = <<>>
  /\ dirtyChunks = <<>>
  /\ camChunkName = Undefined
  /\ camChunkPos = Undefined
  /\ renderRadius \in RadiusSet
  /\ hasGenerator \in BOOLEAN
  /\ generating = <<>>
  /\ ticks = 0
  /\ writes = 0
  /\ lastOp = [op |-> "new", v |-> Undefined, t |-> 0]
  /\ log = <<>>
  /\ drainStart = [dirtyChunks |-> <<>>, flags |-> <<>>]
  /\ unbuilt = <<>>
  /\ drained = <<>>
  /\ written = <<>>
  /\ returned = [op |-> "none", name |-> <<>>, v |-> <<>>, r |-> NoChunk]
  /\ options = defaultWorldOptions

\* the queue of w and, entry by entry, the flags the drain reads
QueueSnapshot(w) ==
  [dirtyChunks |-> w.dirtyChunks,
   flags |-> [i \in 1..Len(w.dirtyChunks) |->
                [isPending |-> w.heap[w.dirtyChunks[i]].isPending,
                 isInitialized |-> w.heap[w.dirtyChunks[i]].isInitialized,
                 isMeshing |-> w.heap[w.dirtyChunks[i]].isMeshing]]]

\* World.tick with the camera at voxel pos
tick(pos) ==
  /\ LET w1 == checkCamChunk([World EXCEPT !.log = <<>>, !.drained = <<>>], pos)
         w2 == meshDirtyChunks(w1)
     IN /\ heap' = w2.heap
        /\ chunks' = w2.chunks
        /\ dirtyChunks' = w2.dirtyChunks
        /\ camChunkName' = w2.camChunkName
        /\ camChunkPos' = w2.camChunkPos
        /\ generating' = w2.generating
        /\ log' = w2.log
        /\ drainStart' = QueueSnapshot(w1)
        /\ drained' = w2.drained
        /\ unbuilt' = w2.unbuilt
  /\ ticks' = ticks + 1
  /\ lastOp' = [op |-> "tick", v |-> pos, t |-> 0]
  /\ UNCHANGED <<renderRadius, hasGenerator, writes, written, returned,
                 options>>

\* the ticks of the streaming pipeline
Tick(pos) == ticks < MaxTicks /\ tick(pos)

\* World.setVoxel(vCoords, type)
SetVoxel(vCoords, type) ==
  /\ writes < MaxWrites
  /\ LET targets == setVoxelTargets(World, vCoords)
     IN /\ heap' = WriteAll(heap, targets, vCoords, type)
        /\ written' = targets
        /\ unbuilt' = [id \in 1..Len(heap) |->
                         \/ unbuilt[id]
                         \/ \E i \in 1..Len(targets) :
                              targets[i] = id /\ ChunkContains(heap[id], vCoords)]
  /\ writes' = writes + 1
  /\ lastOp' = [op |-> "setVoxel", v |-> vCoords, t |-> type]
  /\ UNCHANGED <<chunks, dirtyChunks, camChunkName, camChunkPos, renderRadius,
                 hasGenerator, generating, ticks, log, drainStart, drained,
                 returned, options>>

\* a generate(chunk) promise resolves: chunk.initialized()
GenerateDone(id) ==
  /\ generating[id] > 0
  /\ generating' = [generating EXCEPT ![id] = @ - 1]
  /\ heap' = [heap EXCEPT ![id] = ChunkInitialized(@)]
  /\ UNCHANGED <<lastOp, chunks, dirtyChunks, camChunkName, camChunkPos, renderRadius,
                 hasGenerator, ticks, writes, log, drainStart, drained,
                 unbuilt, written, returned, options>>

\* the consumer of 'data-needed' supplies the data: it clears isPending and
\* takes the same completion path
DataSupplied(id) ==
  /\ heap[id].isPending
  /\ heap' = [heap EXCEPT ![id] = ChunkInitialized([@ EXCEPT !.isPending = FALSE])]
  /\ UNCHANGED <<lastOp, chunks, dirtyChunks, camChunkName, camChunkPos, renderRadius,
                 hasGenerator, generating, ticks, writes, log, drainStart,
                 drained, unbuilt, written, returned, options>>

\* a mesh build in flight completes
MeshBuilt(id) ==
  /\ heap[id].isMeshing
  /\ heap' = [heap EXCEPT ![id] = ChunkMeshBuilt(@)]
  /\ UNCHANGED <<lastOp, chunks, dirtyChunks, camChunkName, camChunkPos, renderRadius,
                 hasGenerator, generating, ticks, writes, log, drainStart,
                 drained, unbuilt, written, returned, options>>

\* The streaming pipeline: ticks with a moving camera and the completions
\* of the generation requests and mesh builds that the ticks start.
Next ==
  \/ \E pos \in CamVoxels : Tick(pos)
  \/ \E id \in 1..Len(heap) : GenerateDone(id)
  \/ \E id \in 1..Len(heap) : DataSupplied(id)
  \/ \E id \in 1..Len(heap) : MeshBuilt(id)

Spec == Init /\ [][Next]_vars

\* Voxel edits while the world starts up: the first ticks, the arrival of
\* chunk data, and setVoxel calls at any point in between.
EditTick(pos) == ticks < MaxEditTicks /\ Tick(pos)

NextEdit ==
  \/ \E pos \in CamVoxels : EditTick(pos)
  \/ \E v \in VoxelInputs, t \in Types : SetVoxel(v, t)
  \/ \E id \in 1..Len(heap) : GenerateDone(id)
  \/ \E id \in 1..Len(heap) : DataSupplied(id)

SpecEdit == Init /\ [][NextEdit]_vars

\* Edits while meshes are built, in a world of render radius 0: the camera
\* moves between two chunks, the mesh builds the ticks start complete at any
\* later point and setVoxel is called at any point in between.
NearInit == Init /\ renderRadius = 0

NearTick(pos) == ticks < MaxNearTicks /\ tick(pos)

NextNear ==
  \/ \E pos \in CamVoxels : NearTick(pos)
  \/ \E v \in NearVoxels, t \in Types : SetVoxel(v, t)
  \/ \E id \in 1..Len(heap) : GenerateDone(id)
  \/ \E id \in 1..Len(heap) : DataSupplied(id)
  \/ \E id \in 1..Len(heap) : MeshBuilt(id)

SpecNear == NearInit /\ [][NextNear]_vars

\* the state of the world that a lookup must leave alone
WorldState == <<heap, chunks, dirtyChunks, camChunkName, camChunkPos,
                renderRadius, hasGenerator, generating, options>>

\* a call of one of the lookups of World
Lookup(op, name, v, result) ==
  /\ returned' = [op |-> op, name |-> name, v |-> v, r |-> result]
  /\ UNCHANGED <<WorldState, ticks, writes, lastOp, log, drainStart, drained,
                 unbuilt, written>>

GetChunkByCPos(cCoords) ==
  Lookup("getChunkByCPos", <<>>, cCoords, getChunkByCPosIn(World, cCoords))

GetChunkByName(chunkName) ==
  Lookup("getChunkByName", chunkName, <<>>, getChunkByNameIn(World, chunkName))

GetChunkByVoxel(vCoords) ==
  Lookup("getChunkByVoxel", <<>>, vCoords, getChunkByVoxelIn(World, vCoords))

GetVoxelByVoxel(vCoords) ==
  Lookup("getVoxelByVoxel", <<>>, vCoords, getVoxelByVoxel(World, vCoords))

\* Lookups while a world of render radius 0 starts up and is edited.
NextLookup ==
  \/ \E pos \in CamVoxels : EditTick(pos)
  \/ \E v \in VoxelInputs, t \in Types : SetVoxel(v, t)
  \/ \E id \in 1..Len(heap) : GenerateDone(id)
  \/ \E id \in 1..Len(heap) : DataSupplied(id)
  \/ \E c \in LookupCoords : GetChunkByCPos(c)
  \/ \E nm \in LookupNames : GetChunkByName(nm)
  \/ \E v \in LookupVoxels : GetChunkByVoxel(v)
  \/ \E v \in LookupVoxels : GetVoxelByVoxel(v)

SpecLookup == NearInit /\ [][NextLookup]_vars

\* A camera that starts in chunk (0,0,0) of a world of render radius 1 and, from
\* tick to tick, stays in its chunk or crosses into the next one along x.
TravelInit == Init /\ renderRadius = 1

TravelTick(pos) ==
  /\ ticks < MaxTravelTicks
  /\ IF camChunkPos = Undefined THEN pos = <<0, 0, 0>>
     ELSE mapVoxelPosToChunkPos(pos, chunkSize)[1] \in
            {camChunkPos[1], camChunkPos[1] + 1}
  /\ tick(pos)

NextTravel ==
  \/ \E pos \in TravelVoxels : TravelTick(pos)
  \/ \E id \in 1..Len(heap) : GenerateDone(id)
  \/ \E id \in 1..Len(heap) : DataSupplied(id)

SpecTravel == TravelInit /\ [][NextTravel]_vars

\* Debug.tick: the camera chunk read back from camChunkPosStr
DebugTick ==
  /\ camChunkPos # Undefined
  /\ returned' = [op |-> "Debug.tick", name |-> camChunkPosStr(World),
                  v |-> parseChunkName(camChunkPosStr(World), " "),
                  r |-> NoChunk]
  /\ UNCHANGED <<WorldState, ticks, writes, lastOp, log, drainStart, drained,
                 unbuilt, written>>

\* Helper.parseChunkName applied to the key of a stored chunk
ParseChunkName(chunkName) ==
  /\ chunkName \in DOMAIN chunks
  /\ returned' = [op |-> "parseChunkName", name |-> chunkName,
                  v |-> parseChunkName(chunkName, "|"), r |-> chunks[chunkName]]
  /\ UNCHANGED <<WorldState, ticks, writes, lastOp, log, drainStart, drained,
                 unbuilt, written>>

\* the first tick with the camera somewhere in the cube
NameTick(pos) == ticks = 0 /\ tick(pos)

\* Chunk names: a world of render radius 0 whose first tick stores the
\* camera's chunk under its name, and the parsers reading names back.
NextName ==
  \/ \E pos \in NameCamVoxels : NameTick(pos)
  \/ DebugTick
  \/ \E nm \in DOMAIN chunks : ParseChunkName(nm)

SpecName == NearInit /\ [][NextName]_vars

\* Worlds constructed with other chunk sizes and paddings: one tick with the
\* camera at the origin, which lies in chunk (0,0,0) whatever the chunk size,
\* fills the region, then voxels are set.
ConfigOptions ==
  [chunkSize : 1..MaxSize, chunkPadding : 0..MaxPadding]
ConfigVoxels ==
  {<<x, y, z>> : x \in 0..(MaxSize - 1), y \in {0}, z \in 0..(MaxSize - 1)}

\* new World(engine, { chunkSize, chunkPadding, renderRadius: 1 })
ConfigInit ==
  /\ heap = <<>>
  /\ chunks = <<>>
  /\ dirtyChunks = <<>>
  /\ camChunkName = Undefined
  /\ camChunkPos = Undefined
  /\ renderRadius = 1
  /\ hasGenerator \in BOOLEAN
  /\ generating = <<>>
  /\ ticks = 0
  /\ writes = 0
  /\ lastOp = [op |-> "new", v |-> Undefined, t |-> 0]
  /\ log = <<>>
  /\ drainStart = [dirtyChunks |-> <<>>, flags |-> <<>>]
  /\ unbuilt = <<>>
  /\ drained = <<>>
  /\ written = <<>>
  /\ returned = [op |-> "none", name |-> <<>>, v |-> <<>>, r |-> NoChunk]
  /\ options \in ConfigOptions

ConfigTick == ticks = 0 /\ tick(<<0, 0, 0>>)

\* World.setVoxel(vCoords, type) with the options of the World
ConfigSetVoxel(vCoords, type) ==
  /\ writes < MaxWrites
  /\ LET targets == setVoxelTargetsOpt(World, options, vCoords)
     IN /\ heap' = WriteAllOpt(options, heap, targets, vCoords, type)
        /\ written' = targets
        /\ unbuilt' = [id \in 1..Len(heap) |->
                         \/ unbuilt[id]
                         \/ \E i \in 1..Len(targets) :
                              targets[i] = id
                                /\ ChunkContainsOpt(options, heap[id], vCoords)]
  /\ writes' = writes + 1
  /\ lastOp' = [op |-> "setVoxel", v |-> vCoords, t |-> type]
  /\ UNCHANGED <<chunks, dirtyChunks, camChunkName, camChunkPos, renderRadius,
                 hasGenerator, generating, ticks, log, drainStart, drained,
                 returned, options>>

NextConfig ==
  \/ ConfigTick
  \/ \E v \in ConfigVoxels, t \in Types : ConfigSetVoxel(v, t)

SpecConfig == ConfigInit /\ [][NextConfig]_vars

\* The debug panel: its renderRadius control writes world.options.renderRadius
\* (the fog uniforms its onFinishChange sets belong to the renderer and are
\* not part of the World) while ticks go on.
PanelRadii == 1..(MaxRadius + 1)

PanelInit == Init /\ renderRadius = 1

\* worldFolder.add(world.options, 'renderRadius', 1, 10, 1)
RenderRadiusControl(value) ==
  /\ value # renderRadius
  /\ renderRadius' = value
  /\ lastOp' = [op |-> "renderRadius", v |-> <<value>>, t |-> 0]
  /\ UNCHANGED <<heap, chunks, dirtyChunks, camChunkName, camChunkPos,
                 hasGenerator, generating, ticks, writes, log, drainStart,
                 drained, unbuilt, written, returned, options>>

NextPanel ==
  \/ \E pos \in CamVoxels : Tick(pos)
  \/ \E value \in PanelRadii : RenderRadiusControl(value)
  \/ \E id \in 1..Len(heap) : GenerateDone(id)
  \/ \E id \in 1..Len(heap) : DataSupplied(id)

SpecPanel == PanelInit /\ [][NextPanel]_vars

TypeOK ==
  /\ Len(generating) = Len(heap)
  /\ Len(unbuilt) = Len(heap)
  /\ \A nm \in DOMAIN chunks : chunks[nm] \in 1..Len(heap)
  /\ \A i \in 1..Len(dirtyChunks) : dirtyChunks[i] \in 1..Len(heap)
\* ------------------------------------------------------- reading the history
EventsIn(lg, kinds) == SelectSeq(lg, LAMBDA e : e.ev \in kinds)
EventsOf(kinds) == EventsIn(log, kinds)

Pops == EventsOf({"pop"})
Requests == EventsOf({"generate", "data-needed"})
Sweeps == EventsOf({"sweep"})
Creates == EventsOf({"create"})

IdsOf(events) == {events[i].id : i \in 1..Len(events)}
PosOf(events) == {events[i].pos : i \in 1..Len(events)}
Range(seq) == {seq[i] : i \in 1..Len(seq)}

SqDist(p, q) ==
  (p[1] - q[1]) * (p[1] - q[1]) + (p[2] - q[2]) * (p[2] - q[2])
    + (p[3] - q[3]) * (p[3] - q[3])

\* the chunk coordinates around the camera chunk, one further than the loops
\* of a tick reach
Around(c, r) ==
  ((c[1] - r - 1)..(c[1] + r + 1)) \X ((c[2] - r - 1)..(c[2] + r + 1))
    \X ((c[3] - r - 1)..(c[3] + r + 1))

NeverRequested(fl) == ~fl.isPending /\ ~fl.isInitialized

C4_RegionIsClosedSphere ==
  [][(ticks' = ticks + 1) =>
       LET inside == {p \in Around(camChunkPos', renderRadius) :
                        SqDist(p, camChunkPos') <= renderRadius * renderRadius}
       IN /\ PosOf(EventsIn(log', {"sweep"})) = inside
          /\ PosOf(EventsIn(log', {"create"})) \subseteq inside
          /\ Len(EventsIn(log', {"chunk-changed"})) > 0 =>
               /\ \A p \in inside : getChunkName(p) \in DOMAIN chunks'
               /\ PosOf(EventsIn(log', {"create"})) =
                    {p \in inside : getChunkName(p) \notin DOMAIN chunks}]_vars

\* a chunk created and swept at squared distance exactly renderRadius squared
C4_Witness ==
  /\ renderRadius >= 1
  /\ \E p \in PosOf(Creates) \cap PosOf(Sweeps) :
       SqDist(p, camChunkPos) = renderRadius * renderRadius

\* C5: the first tick fills an empty store with exactly the chunks at squared
\* distance at most renderRadius squared from the camera chunk, and each of
\* them is dirty and uninitialized when that tick ends.
C5_FirstTickFillsSphere ==
  [][(ticks = 0 /\ ticks' = 1) =>
       /\ chunks = <<>>
       /\ DOMAIN chunks' =
            {getChunkName(p) : p \in
               {q \in Around(camChunkPos', renderRadius) :
                  SqDist(q, camChunkPos') <= renderRadius * renderRadius}}
       /\ \A nm \in DOMAIN chunks' :
            /\ heap'[chunks'[nm]].name = nm
            /\ heap'[chunks'[nm]].isDirty
            /\ ~heap'[chunks'[nm]].isInitialized]_vars

\* after the first tick at radius 1 the store holds the seven chunks
C5_Witness ==
  /\ ticks = 1
  /\ renderRadius = 1
  /\ Cardinality(DOMAIN chunks) = 7
  /\ \A nm \in DOMAIN chunks : heap[chunks[nm]].isDirty
\* the faces whose margin holds local position lp, as unit offsets
MarginFaces(lp) ==
  {o \in {<<-1, 0, 0>>, <<0, -1, 0>>, <<0, 0, -1>>} :
     \E i \in 1..3 : o[i] = -1 /\ lp[i] <= chunkPadding - 1}
  \cup
  {o \in {<<1, 0, 0>>, <<0, 1, 0>>, <<0, 0, 1>>} :
     \E i \in 1..3 : o[i] = 1 /\ lp[i] + chunkPadding >= chunkSize}

Shift(cp, o) == <<cp[1] + o[1], cp[2] + o[2], cp[3] + o[3]>>

OwnerOf(v) == getChunkByVoxelIn(World, v)

\* the stored chunks across the faces whose margin holds voxel v
AcrossOf(v) ==
  {getChunkByCPosIn(World, Shift(mapVoxelPosToChunkPos(v, chunkSize), o)) :
     o \in MarginFaces(mapVoxelPosToChunkLocalPos(v, chunkSize))} \ {NoChunk}

\* C6: setVoxel(V, T) with V in a stored chunk writes T into that chunk and
\* into the stored neighbors across the faces whose margin holds V, and into
\* no other chunk: one neighbor for one face, the three face-adjacent ones at
\* a corner, never an edge- or corner-diagonal one.
C6_FaceNeighborsOnly ==
  [][(writes' = writes + 1 /\ OwnerOf(lastOp'.v) # NoChunk) =>
       LET v == lastOp'.v
           cp == mapVoxelPosToChunkPos(v, chunkSize)
           faces == MarginFaces(mapVoxelPosToChunkLocalPos(v, chunkSize))
           targets == {OwnerOf(v)} \cup AcrossOf(v)
       IN /\ \A id \in targets :
               /\ ChunkGetVoxel(heap'[id], v) = lastOp'.t
               /\ heap'[id].isDirty
          /\ \A id \in (1..Len(heap)) \ targets : heap'[id] = heap[id]
          /\ Range(written') = targets
          /\ Len(written') = Cardinality(targets)
          /\ Cardinality(faces) = 1 => Cardinality(AcrossOf(v)) <= 1
          /\ \A id \in AcrossOf(v) : SqDist(heap[id].coords, cp) = 1]_vars

\* voxel (1,5,5), local x = chunkPadding - 1 of chunk (0,0,0), was written:
\* chunk (-1,0,0) holds the type and chunk (0,1,0) does not
C6_Witness ==
  /\ writes = 1
  /\ lastOp = [op |-> "setVoxel", v |-> <<1, 5, 5>>, t |-> 1]
  /\ getChunkByCPosIn(World, <<0, 0, 0>>) # NoChunk
  /\ getChunkByCPosIn(World, <<-1, 0, 0>>) # NoChunk
  /\ getChunkByCPosIn(World, <<0, 1, 0>>) # NoChunk
  /\ ChunkGetVoxel(heap[getChunkByCPosIn(World, <<0, 0, 0>>)], <<1, 5, 5>>) = 1
  /\ ChunkGetVoxel(heap[getChunkByCPosIn(World, <<-1, 0, 0>>)], <<1, 5, 5>>) = 1
  /\ ChunkGetVoxel(heap[getChunkByCPosIn(World, <<0, 1, 0>>)], <<1, 5, 5>>) = 0

\* the corner case of C6: voxel (0,0,31) written into chunk (0,0,0) and its
\* three face neighbors
C6_CornerReached ==
  /\ writes = 1
  /\ lastOp = [op |-> "setVoxel", v |-> <<0, 0, 31>>, t |-> 1]
  /\ Len(written) = 4

\* the same voxel written while the edge-diagonal chunk (-1,-1,0) is stored
C6_DiagonalReached ==
  /\ writes = 1
  /\ lastOp = [op |-> "setVoxel", v |-> <<0, 0, 31>>, t |-> 1]
  /\ Len(written) >= 2
  /\ getChunkByCPosIn(World, <<-1, -1, 0>>) # NoChunk
  /\ ChunkGetVoxel(heap[getChunkByCPosIn(World, <<-1, -1, 0>>)], <<0, 0, 31>>) = 0

\* C7: setVoxel(V, T) changes no chunk when the chunk owning V is not stored,
\* also when V lies in the margin next to a stored neighbor.
C7_AbsentOwnerNoOp ==
  [][(writes' = writes + 1 /\ OwnerOf(lastOp'.v) = NoChunk) => heap' = heap]_vars

\* C8: a chunk is dirty when created, and isDirty goes from true to false only
\* in the completion of a mesh build that the sweep or the drain of a tick
\* triggered; no tick and no generation completion clears it.
C8_DirtyClearedOnlyByBuild ==
  [][\A id \in 1..Len(heap') :
       /\ id > Len(heap) => heap'[id].isDirty /\ ~heap'[id].isMeshing
       /\ (id <= Len(heap) /\ heap[id].isDirty /\ ~heap'[id].isDirty) =>
            /\ heap[id].isMeshing
            /\ ~heap'[id].isMeshing
            /\ ticks' = ticks
            /\ generating' = generating
       /\ (id <= Len(heap) /\ ~heap[id].isMeshing /\ heap'[id].isMeshing) =>
            /\ ticks' = ticks + 1
            /\ id \in IdsOf(EventsIn(log', {"sweepBuild", "drainBuild"}))]_vars

\* a chunk no setVoxel wrote to is clean after its build completed
C8_Witness ==
  /\ writes = 0
  /\ \E id \in 1..Len(heap) :
       ~heap[id].isDirty /\ ~heap[id].isMeshing /\ heap[id].isInitialized

CountOf(lg, kinds, id) ==
  Len(SelectSeq(lg, LAMBDA e : e.ev \in kinds /\ e.id = id))

C10_ChunksStayReachable ==
  [][/\ \A nm \in DOMAIN chunks :
          nm \in DOMAIN chunks' /\ chunks'[nm] = chunks[nm]
     /\ \A id \in 1..Len(heap) :
          /\ id <= Len(heap')
          /\ heap'[id].coords = heap[id].coords
          /\ heap'[id].name = heap[id].name
     /\ \A id \in 1..Len(heap') :
          /\ heap'[id].name \in DOMAIN chunks'
          /\ chunks'[heap'[id].name] = id
          /\ chunks'[getChunkName(heap'[id].coords)] = id
     /\ Len(heap') > Len(heap) =>
          /\ ticks' = ticks + 1
          /\ Len(EventsIn(log', {"chunk-changed"})) = 1
     /\ \A id \in (Len(heap) + 1)..Len(heap') :
          /\ heap'[id].name \notin DOMAIN chunks
          /\ CountOf(log', {"create"}, id) = 1
     /\ DOMAIN chunks' =
          DOMAIN chunks \cup {heap'[id].name : id \in (Len(heap) + 1)..Len(heap')}]_vars

\* a second fill added chunks next to the seven of the first, all reachable
C10_Witness ==
  /\ ticks = 2
  /\ Cardinality(DOMAIN chunks) > 7
  /\ Len(Creates) > 0
  /\ \A id \in 1..Len(heap) : getChunkByCPosIn(World, heap[id].coords) = id

\* the identities in events, in reverse order of the events
RECURSIVE ReverseIds(_)
ReverseIds(events) ==
  IF events = <<>> THEN <<>>
  ELSE Append(ReverseIds(Tail(events)), Head(events).id)

\* C12: a tick emits 'chunk-changed' once, with the coordinates of the chunk
\* that holds the camera, sets camChunkName and camChunkPos and runs the fill
\* exactly when the name of that chunk differs from camChunkName; a tick whose
\* name is unchanged emits no notification, creates no chunk and pushes
\* nothing onto the queue before the drain. The first tick is a change.
C12_ActOnlyOnChange ==
  [][(ticks' = ticks + 1) =>
       LET chunkPos == mapVoxelPosToChunkPos(lastOp'.v, chunkSize)
           chunkName == getChunkName(chunkPos)
           changed == EventsIn(log', {"chunk-changed"})
           created == EventsIn(log', {"create"})
       IN /\ ticks = 0 => chunkName # camChunkName
          /\ chunkName # camChunkName =>
               /\ Len(changed) = 1
               /\ changed[1].pos = chunkPos
               /\ log'[1] = changed[1]
               /\ camChunkName' = chunkName
               /\ camChunkPos' = chunkPos
               /\ getChunkName(chunkPos) \in DOMAIN chunks'
               /\ drainStart'.dirtyChunks = ReverseIds(created) \o dirtyChunks
          /\ chunkName = camChunkName =>
               /\ changed = <<>>
               /\ created = <<>>
               /\ camChunkName' = camChunkName
               /\ camChunkPos' = camChunkPos
               /\ chunks' = chunks
               /\ Len(heap') = Len(heap)
               /\ drainStart'.dirtyChunks = dirtyChunks]_vars

\* a second tick with the camera still in the chunk of the first: nothing
\* was emitted or created, and the store is the one the first tick filled
C12_Witness ==
  /\ ticks = 2
  /\ camChunkName = getChunkName(mapVoxelPosToChunkPos(lastOp.v, chunkSize))
  /\ EventsOf({"chunk-changed", "create"}) = <<>>
  /\ Len(heap) > 0
  /\ Len(drainStart.dirtyChunks) > 0

\* a second tick after the camera crossed into the next chunk
C12_ChangeReached ==
  /\ ticks = 2
  /\ Len(EventsOf({"chunk-changed"})) = 1
  /\ Len(Creates) > 0
  /\ Len(heap) > Len(Creates)

\* C13: 'data-needed' is emitted only in a world without generator: the drain,
\* shifting off a chunk that is neither pending nor initialized, sets
\* isPending, clears isEmpty and emits 'data-needed' for that chunk, once; no
\* 'data-needed' is emitted for a chunk that is pending; with a generator
\* 'data-needed' is never emitted and no chunk is ever pending.
C13_DataNeededOnlyWithoutGenerator ==
  [][/\ hasGenerator => \A id \in 1..Len(heap') : ~heap'[id].isPending
     /\ (ticks' = ticks + 1) =>
          LET needed == EventsIn(log', {"data-needed"})
          IN /\ hasGenerator => needed = <<>>
             /\ ~hasGenerator => EventsIn(log', {"generate"}) = <<>>
             /\ \A i \in 1..Len(needed) :
                  LET id == needed[i].id
                  IN /\ CountOf(log', {"data-needed"}, id) = 1
                     /\ id <= Len(heap) =>
                          ~heap[id].isPending /\ ~heap[id].isInitialized
                     /\ heap'[id].isPending
                     /\ ~heap'[id].isEmpty
                     /\ needed[i].pos = heap'[id].coords
                     /\ \E j \in 1..Len(drained') :
                          /\ drained'[j].id = id
                          /\ ~drained'[j].isPending
                          /\ ~drained'[j].isInitialized
             /\ \A j \in 1..Len(drained') :
                  (~hasGenerator /\ ~drained'[j].isPending
                     /\ ~drained'[j].isInitialized) =>
                    CountOf(log', {"data-needed"}, drained'[j].id) = 1
             /\ \A id \in 1..Len(heap) :
                  heap[id].isPending => CountOf(log', {"data-needed"}, id) = 0
             /\ \A id \in 1..Len(heap') :
                  heap'[id].isPending =>
                    \/ id <= Len(heap) /\ heap[id].isPending
                    \/ CountOf(log', {"data-needed"}, id) = 1]_vars

\* without generator, a drain shifted the same chunk off twice and emitted
\* 'data-needed' for it once: the second time it was pending
C13_Witness ==
  /\ ~hasGenerator
  /\ Len(drained) = 2
  /\ drained[1].id = drained[2].id
  /\ ~drained[1].isPending
  /\ drained[2].isPending
  /\ Len(EventsOf({"data-needed"})) = 1
  /\ heap[drained[1].id].isPending
  /\ ~heap[drained[1].id].isEmpty

\* a later tick shifted a chunk off that was still pending and emitted nothing
C13_PendingLaterReached ==
  /\ ~hasGenerator
  /\ ticks = 2
  /\ \E j \in 1..Len(drained) :
       drained[j].isPending /\ CountOf(log, {"data-needed"}, drained[j].id) = 0

\* the positions of the 'pop' events in lg
PopAt(lg) ==
  SelectSeq([k \in 1..Len(lg) |-> k], LAMBDA k : lg[k].ev = "pop")

\* what iteration i of the drain logged after shifting its chunk off
IterEvents(lg, i) ==
  SubSeq(lg, PopAt(lg)[i] + 1,
         IF i < Len(PopAt(lg)) THEN PopAt(lg)[i + 1] - 1 ELSE Len(lg))

\* the queue as iteration i of a drain dr ended, q being the queue it left
QueueAfter(dr, q, i) ==
  IF i < Len(dr) THEN <<dr[i + 1].id>> \o dr[i + 1].rest ELSE q

\* C19: the drain appends a chunk it shifted off while pending or not
\* initialized behind every entry then queued and the chunk is still queued
\* when the drain ends; if it was not pending the drain issues one generation
\* request for it, if it was pending none.
C19_UnreadyRequeuedAtRear ==
  [][(ticks' = ticks + 1) =>
       /\ Len(PopAt(log')) = Len(drained')
       /\ \A i \in 1..Len(drained') :
            LET d == drained'[i]
                ev == IterEvents(log', i)
            IN /\ i <= Len(drainStart'.dirtyChunks) =>
                    /\ d.id = drainStart'.dirtyChunks[i]
                    /\ d.isPending = drainStart'.flags[i].isPending
                    /\ d.isInitialized = drainStart'.flags[i].isInitialized
               /\ i = 1 => d.rest = Tail(drainStart'.dirtyChunks)
               /\ (d.isPending \/ ~d.isInitialized) =>
                    /\ QueueAfter(drained', dirtyChunks', i) = Append(d.rest, d.id)
                    /\ d.id \in Range(dirtyChunks')
                    /\ d.isPending => ev = <<>>
                    /\ ~d.isPending =>
                         /\ Len(ev) = 1
                         /\ ev[1].ev \in {"generate", "data-needed"}
                         /\ ev[1].id = d.id]_vars

\* a drain over two chunks: the first, never requested, was requested and
\* requeued, the second, pending, was requeued behind it
C19_Witness ==
  /\ Len(drained) = 2
  /\ ~drained[1].isPending /\ ~drained[1].isInitialized
  /\ drained[2].isPending
  /\ drained[1].id # drained[2].id
  /\ dirtyChunks = <<drained[1].id, drained[2].id>>
  /\ CountOf(log, {"data-needed"}, drained[1].id) = 1
  /\ CountOf(log, {"data-needed"}, drained[2].id) = 0

\* C20: the drain never requeues a chunk it shifted off while initialized and
\* not pending: with isMeshing set it starts no build, otherwise it starts
\* one, and either way the chunk is out of the queue; a stored chunk that is
\* not in the queue never enters it again.
C20_ReadyLeavesQueue ==
  [][/\ \A id \in 1..Len(heap) :
          id \notin Range(dirtyChunks) => id \notin Range(dirtyChunks')
     /\ (ticks' = ticks + 1) =>
          \A i \in 1..Len(drained') :
            LET d == drained'[i]
                ev == IterEvents(log', i)
            IN /\ i <= Len(drainStart'.dirtyChunks) =>
                    /\ d.id = drainStart'.dirtyChunks[i]
                    /\ d.isPending = drainStart'.flags[i].isPending
                    /\ d.isInitialized = drainStart'.flags[i].isInitialized
                    /\ d.isMeshing = drainStart'.flags[i].isMeshing
               /\ (d.isInitialized /\ ~d.isPending) =>
                    /\ QueueAfter(drained', dirtyChunks', i) = d.rest
                    /\ d.id \notin Range(dirtyChunks')
                    /\ heap'[d.id].isMeshing
                    /\ d.isMeshing => ev = <<>>
                    /\ ~d.isMeshing =>
                         ev = <<Ev("drainBuild", d.id, heap'[d.id].coords)>>]_vars

\* the sweep of a tick started the build of a chunk and the drain of the same
\* tick shifted it off and dropped it, starting nothing
C20_Witness ==
  /\ \E i \in 1..Len(drained) :
       /\ drained[i].isInitialized /\ ~drained[i].isPending /\ drained[i].isMeshing
       /\ CountOf(log, {"sweepBuild"}, drained[i].id) = 1
       /\ CountOf(log, {"drainBuild"}, drained[i].id) = 0
       /\ drained[i].id \notin Range(dirtyChunks)

\* the drain started the build of a chunk the sweep did not reach
C20_BuildReached ==
  /\ \E i \in 1..Len(drained) :
       /\ drained[i].isInitialized /\ ~drained[i].isPending /\ ~drained[i].isMeshing
       /\ CountOf(log, {"drainBuild"}, drained[i].id) = 1
       /\ drained[i].id \notin Range(dirtyChunks)
       /\ heap[drained[i].id].isMeshing

Builds(lg, id) == CountOf(lg, {"sweepBuild", "drainBuild"}, id)

\* C18: a tick starts at most one mesh build per chunk, sweep and drain
\* together, and none for a chunk whose isMeshing was set as the tick began;
\* the chunk is meshing from then on, so no chunk has two builds in flight.
C18_NoBuildWhileMeshing ==
  [][(ticks' = ticks + 1) =>
       \A id \in 1..Len(heap') :
         /\ Builds(log', id) <= 1
         /\ Builds(log', id) = 1 =>
              /\ id <= Len(heap)
              /\ ~heap[id].isMeshing
              /\ heap'[id].isMeshing
         /\ (id <= Len(heap) /\ heap[id].isMeshing) => heap'[id].isMeshing]_vars

\* the third tick swept a dirty chunk whose build, started by the second,
\* was still in flight, and started none
C18_Witness ==
  /\ ticks = 3
  /\ \E id \in IdsOf(Sweeps) \ {NoChunk} :
       /\ heap[id].isInitialized
       /\ heap[id].isDirty
       /\ heap[id].isMeshing
       /\ Builds(log, id) = 0

\* the sweep started a build and the drain of the same tick met the chunk
C18_SameTickReached ==
  \E i \in 1..Len(drained) :
    /\ drained[i].isMeshing
    /\ log[PopAt(log)[i] - 1] = Ev("sweepBuild", drained[i].id, heap[drained[i].id].coords)
    /\ Builds(log, drained[i].id) = 1

\* a generation request for chunk id is issued and not yet resolved: its
\* generate() promise is unresolved or, without generator, it is pending
Outstanding(id) == generating[id] > 0 \/ heap[id].isPending

\* C17: a tick issues at most one generation request per chunk, and none for
\* a chunk that has a request outstanding as the tick begins, with or without
\* generator.
C17_OneRequestInFlight ==
  [][(ticks' = ticks + 1) =>
       \A id \in 1..Len(heap') :
         /\ CountOf(log', {"generate", "data-needed"}, id) <= 1
         /\ (id <= Len(heap) /\ Outstanding(id)) =>
              CountOf(log', {"generate", "data-needed"}, id) = 0]_vars

\* the name under which the chunk a lookup asks for would be stored
LookupKey(l) ==
  IF l.op = "getChunkByName" THEN l.name
  ELSE IF l.op = "getChunkByCPos" THEN getChunkName(l.v)
  ELSE getChunkName(mapVoxelPosToChunkPos(l.v, chunkSize))

\* C14: a lookup by coordinates, name or voxel of a chunk that is not stored
\* returns no chunk, a voxel lookup there returns null, which is no voxel
\* type and no chunk; the lookup creates no chunk, queues nothing and changes
\* no flag. A lookup of a stored chunk returns that chunk or its voxel.
C14_AbsentLookupReturnsNothing ==
  [][(returned' # returned) =>
       LET l == returned'
           key == LookupKey(l)
       IN /\ UNCHANGED WorldState
          /\ key \notin DOMAIN chunks =>
               /\ l.op = "getVoxelByVoxel" => l.r = Null /\ Null \notin 0..255
               /\ l.op # "getVoxelByVoxel" =>
                    l.r = NoChunk /\ NoChunk \notin 1..Len(heap)
          /\ key \in DOMAIN chunks =>
               /\ l.op = "getVoxelByVoxel" =>
                    l.r = ChunkGetVoxel(heap[chunks[key]], l.v)
               /\ l.op # "getVoxelByVoxel" => l.r = chunks[key]]_vars

\* voxel (64,5,5) was looked up while chunks are stored and chunk (2,0,0) is
\* not: the lookup returned null
C14_Witness ==
  /\ returned.op = "getVoxelByVoxel"
  /\ returned.v = <<64, 5, 5>>
  /\ Len(heap) > 0
  /\ getChunkName(<<2, 0, 0>>) \notin DOMAIN chunks
  /\ returned.r = Null

\* a lookup by a name that no coordinates have
C14_NameReached ==
  /\ returned.op = "getChunkByName"
  /\ returned.name = <<"0", "|", "0">>
  /\ Len(heap) > 0
  /\ returned.r = NoChunk

\* a lookup of a voxel that was written
C14_PresentReached ==
  /\ returned.op = "getVoxelByVoxel"
  /\ returned.v = <<1, 5, 5>>
  /\ returned.r = 1

\* coordinates whose names are easily confused with the name of c
Confusable(c) ==
  Around(c, 0) \cup {<<0 - c[1], 0 - c[2], 0 - c[3]>>, <<c[2], c[3], c[1]>>,
                     <<c[3], c[1], c[2]>>, <<c[1], c[3], c[2]>>,
                     <<c[1] * 10, c[2], c[3]>>, <<c[1], c[2] * 10, c[3]>>}

\* C15: a chunk is stored under the name of its coordinates, parsing that
\* name with the separator it was built with gives the coordinates back,
\* negative ones too, and no other coordinates have that name; the same for
\* the position string of the camera chunk.
C15_NameRoundTrips ==
  /\ \A id \in 1..Len(heap) :
       /\ heap[id].name = getChunkName(heap[id].coords)
       /\ chunks[heap[id].name] = id
       /\ parseChunkName(heap[id].name, "|") = heap[id].coords
       /\ \A c \in Confusable(heap[id].coords) :
            getChunkName(c) = heap[id].name => c = heap[id].coords
  /\ returned.op = "Debug.tick" =>
       /\ returned.v = camChunkPos
       /\ \A c \in Confusable(camChunkPos) :
            camChunkPosStr([camChunkPos |-> c]) = returned.name => c = camChunkPos
  /\ returned.op = "parseChunkName" =>
       returned.v = heap[returned.r].coords

\* the name of a chunk with negative and two-digit coordinates was parsed
C15_Witness ==
  /\ returned.op = "parseChunkName"
  /\ returned.name = <<"-", "1", "0", "|", "2", "|", "-", "1">>
  /\ returned.v = <<-10, 2, -1>>
  /\ heap[returned.r].coords = <<-10, 2, -1>>

\* Debug.tick read the camera chunk (-1,-10,9) back from "-1 -10 9"
C15_CamReached ==
  /\ returned.op = "Debug.tick"
  /\ returned.name = <<"-", "1", " ", "-", "1", "0", " ", "9">>
  /\ returned.v = <<-1, -10, 9>>

\* C16: in every state a chunk whose voxel data changed since its last mesh
\* build started, or that was never meshed, is dirty, also when setVoxel wrote
\* into it between the start of a build and the completion of that build.
C16_ChangedSinceBuildIsDirty ==
  \A id \in 1..Len(heap) : unbuilt[id] => heap[id].isDirty

\* generation was requested for chunk id at some point
EverRequested(id) ==
  heap[id].isInitialized \/ heap[id].isPending \/ generating[id] > 0

\* the chunks that the first tick of the travelling camera queued
FirstFill ==
  {id \in 1..Len(heap) :
     SqDist(heap[id].coords, <<0, 0, 0>>) <= renderRadius * renderRadius}

\* C11, in the form a finite run decides: the first tick requests generation
\* for maxChunkPerFrame + 1 of the chunks it queued and leaves the others
\* waiting; when all the ticks of the run are over, at least one of those
\* others has had generation requested too, however the camera moved in
\* between and whatever the fills pushed onto the front of the queue.
C11_BacklogMakesProgress ==
  ticks = MaxTravelTicks =>
    Cardinality({id \in FirstFill : EverRequested(id)}) > maxChunkPerFrame + 1

\* the camera stayed in chunk (0,0,0): the drain went through the queue in
\* order and every chunk of the first fill was requested within the run
C11_StayReached ==
  /\ ticks = MaxTravelTicks
  /\ Len(heap) = Cardinality(FirstFill)
  /\ Len(heap) = 7
  /\ \A id \in FirstFill : EverRequested(id)

\* the camera crossed into a new chunk in every tick: five chunks of the
\* first fill are still where the first tick left them, never requested,
\* behind the chunks of the later fills
C11_StarvedReached ==
  /\ ticks = MaxTravelTicks
  /\ camChunkPos = <<MaxTravelTicks - 1, 0, 0>>
  /\ Cardinality({id \in FirstFill : ~EverRequested(id)}) = 5
  /\ \A id \in FirstFill : id \in Range(dirtyChunks)

\* the positions in lg of the events of the given kinds
At(lg, kinds) == {i \in 1..Len(lg) : lg[i].ev \in kinds}

\* C21: the events of a tick come in the order camera tracking, fill, sweep,
\* drain; every chunk the fill of a tick created is visited once by the sweep
\* of that tick, which neither builds nor adds it, and a generation request
\* for it is issued only by the drain, after the drain shifted it off.
C21_FillSweepDrainOrder ==
  [][(ticks' = ticks + 1) =>
       LET changed == At(log', {"chunk-changed"})
           fill == At(log', {"create"})
           sweep == At(log', {"sweep", "addToScene", "sweepBuild"})
           drain == At(log', {"pop", "generate", "data-needed", "drainBuild"})
       IN /\ \A i \in changed : i = 1
          /\ \A i \in fill : \A j \in sweep \cup drain : i < j
          /\ \A j \in sweep : \A k \in drain : j < k
          /\ fill # {} => changed # {}
          /\ sweep # {}
          /\ \A id \in (Len(heap) + 1)..Len(heap') :
               /\ CountOf(log', {"create"}, id) = 1
               /\ CountOf(log', {"sweep"}, id) = 1
               /\ CountOf(log', {"addToScene", "sweepBuild", "drainBuild"}, id) = 0
               /\ ~heap'[id].isInitialized
               /\ \A k \in At(log', {"generate", "data-needed"}) :
                    log'[k].id = id =>
                      \E j \in At(log', {"pop"}) : j < k /\ log'[j].id = id]_vars

\* a tick created a chunk, swept it and requested its generation in the drain
C21_Witness ==
  \E id \in IdsOf(Creates) :
    /\ id \in IdsOf(Sweeps)
    /\ id \in IdsOf(Requests)
    /\ id \in IdsOf(Pops)
    /\ ~heap[id].isInitialized

\* the first n entries of a sequence, and what is left behind them
Front(seq, n) == SubSeq(seq, 1, n)
Behind(seq, n) == SubSeq(seq, n + 1, Len(seq))

\* EverRequested of a chunk with the given heap and promise counts
RequestedIn(hp, gen, id) ==
  hp[id].isInitialized \/ hp[id].isPending \/ gen[id] > 0

\* C22: the queue a tick's drain starts from is the chunks its fill created
\* followed by the queue as it was before the tick; when the drain requests
\* generation for a chunk of that older queue that was never requested, every
\* chunk the fill created has been requested earlier in the same drain; and as
\* the tick ends the never-requested entries stand ahead of all the others,
\* a later-created one (higher id) ahead of an earlier-created one.
C22_NewestRequestedFirst ==
  [][(ticks' = ticks + 1) =>
       LET created == (Len(heap) + 1)..Len(heap')
           q == drainStart'.dirtyChunks
           n == Len(q) - Len(dirtyChunks)
       IN /\ n = Cardinality(created)
          /\ Range(Front(q, n)) = created
          /\ Behind(q, n) = dirtyChunks
          /\ \A k \in At(log', {"generate", "data-needed"}) :
               (log'[k].id <= Len(heap) /\ ~EverRequested(log'[k].id)) =>
                 \A c \in created :
                   \E j \in At(log', {"generate", "data-needed"}) :
                     j < k /\ log'[j].id = c
          /\ \A i, j \in 1..Len(dirtyChunks') :
               (i < j /\ ~RequestedIn(heap', generating', dirtyChunks'[j])) =>
                 /\ ~RequestedIn(heap', generating', dirtyChunks'[i])
                 /\ dirtyChunks'[i] > dirtyChunks'[j]]_vars

\* a fill put new chunks in front of an older never-requested entry and the
\* drain of that tick requested one of the new chunks, the older one waiting
C22_Witness ==
  \E c \in IdsOf(Creates) \cap IdsOf(Requests) :
    \E b \in Range(dirtyChunks) \ IdsOf(Creates) :
      /\ b < c
      /\ ~EverRequested(b)
      /\ b \in Range(drainStart.dirtyChunks)

\* the chunks besides the owning chunk that the last setVoxel wrote into
NeighborsWritten ==
  {written[i] : i \in 1..Len(written)}
    \ {getChunkByCPosIn(World, mapVoxelPosToChunkPos(lastOp.v, options.chunkSize))}

\* C23, as stated: whatever chunkSize and chunkPadding the World was
\* constructed with, a setVoxel call writes into at most three chunks besides
\* the owning chunk.
C23_AtMostThreeNeighbors ==
  lastOp.op = "setVoxel" => Cardinality(NeighborsWritten) <= 3

\* C23, amended: a setVoxel call writes into at most three chunks besides the
\* owning chunk when chunkSize >= 2 * chunkPadding, at most one per axis; in
\* every configuration it writes into at most six, the face neighbors.
C23_AtMostThreeWhenMarginsApart ==
  lastOp.op = "setVoxel" =>
    /\ Cardinality(NeighborsWritten) <= 6
    /\ \A id \in NeighborsWritten :
         SqDist(heap[id].coords,
                mapVoxelPosToChunkPos(lastOp.v, options.chunkSize)) = 1
    /\ options.chunkSize >= 2 * options.chunkPadding =>
         /\ Cardinality(NeighborsWritten) <= 3
         /\ \A id1, id2 \in NeighborsWritten :
              id1 # id2 => SqDist(heap[id1].coords, heap[id2].coords) = 2

\* a corner voxel was set in a World whose margins do not overlap, and three
\* neighbors were written besides the owner
C23_Witness ==
  /\ lastOp.op = "setVoxel"
  /\ options.chunkSize >= 2 * options.chunkPadding
  /\ Cardinality(NeighborsWritten) = 3
  /\ Len(written) = 4

\* a voxel within the padding of both opposite faces was set and more than
\* three neighbors were written
C23_OverlapReached ==
  /\ lastOp.op = "setVoxel"
  /\ options.chunkSize < 2 * options.chunkPadding
  /\ Cardinality(NeighborsWritten) > 3
  /\ \A id \in NeighborsWritten : lastOp.v \in DOMAIN heap[id].voxels

C25_WrittenChunkRebuilt ==
  [][(ticks' = ticks + 1 /\ lastOp.op = "setVoxel") =>
       \A id \in Range(written) :
         ChunkGetVoxel(heap[id], lastOp.v) = lastOp.t =>
           /\ heap[id].isDirty
           /\ (/\ heap[id].isInitialized
               /\ ~heap[id].isMeshing
               /\ InSphere(camChunkPos', heap[id].coords, renderRadius)) =>
                CountOf(log', {"sweepBuild"}, id) = 1]_vars

\* the sweep of the first tick after a setVoxel call built a written chunk
C25_RebuiltReached ==
  /\ lastOp.op = "tick"
  /\ writes > 0
  /\ \E id \in Range(written) :
       /\ CountOf(log, {"sweepBuild"}, id) = 1
       /\ heap[id].isMeshing
       /\ \E v \in NearVoxels : ChunkGetVoxel(heap[id], v) # 0

\* a written chunk whose build in flight completed after the write: clean,
\* initialized and idle with the edit unmeshed, as the next tick is due
C25_LostReached ==
  /\ lastOp.op = "setVoxel"
  /\ \E id \in Range(written) :
       /\ ChunkGetVoxel(heap[id], lastOp.v) = lastOp.t
       /\ heap[id].isInitialized
       /\ ~heap[id].isMeshing
       /\ ~heap[id].isDirty
       /\ unbuilt[id]

\* C26: with a generator, the completion of a generation request leaves the
\* chunk initialized and its isDirty as it was, dirty and not in the scene
\* when it was the completion that initialized the chunk; a chunk joins the
\* scene only in the completion of a mesh build of it, after it was
\* initialized; and no step takes isInitialized from true to false.
C26_InitializedStaysDirtyUntilBuilt ==
  [][/\ \A id \in 1..Len(heap) :
          /\ heap[id].isInitialized => heap'[id].isInitialized
          /\ (hasGenerator /\ generating'[id] < generating[id]) =>
               /\ heap'[id].isInitialized
               /\ heap'[id].isDirty = heap[id].isDirty
               /\ heap'[id].isAdded = heap[id].isAdded
               /\ ~heap[id].isInitialized =>
                    heap'[id].isDirty /\ ~heap'[id].isAdded
          /\ (~heap[id].isAdded /\ heap'[id].isAdded) =>
               /\ heap[id].isInitialized
               /\ heap[id].isMeshing
               /\ ~heap'[id].isMeshing
               /\ ticks' = ticks
     /\ \A id \in (Len(heap) + 1)..Len(heap') :
          ~heap'[id].isInitialized /\ ~heap'[id].isAdded]_vars

\* a generated chunk is in the scene, clean, after its build completed
C26_Witness ==
  /\ hasGenerator
  /\ \E id \in 1..Len(heap) :
       /\ heap[id].isInitialized
       /\ heap[id].isAdded
       /\ ~heap[id].isDirty
       /\ ~heap[id].isMeshing
       /\ ~unbuilt[id]

\* C27: as long as a chunk is not initialized it is in the queue, no build of
\* it is in flight and it is not in the scene, and no tick calls buildMesh or
\* addToScene on it; a drain that shifts such a chunk off puts it behind all
\* the other entries, so that the entry that stood behind it is the next one
\* the drain takes, in the same tick or as the head of the queue the tick
\* leaves.
C27_StalledChunkRotates ==
  [][/\ \A id \in 1..Len(heap') :
          ~heap'[id].isInitialized =>
            /\ id \in Range(dirtyChunks')
            /\ ~heap'[id].isMeshing
            /\ ~heap'[id].isAdded
            /\ CountOf(log', {"sweepBuild", "drainBuild", "addToScene"}, id) = 0
     /\ (ticks' = ticks + 1) =>
          \A i \in 1..Len(drained') :
            ~drained'[i].isInitialized =>
              LET after == QueueAfter(drained', dirtyChunks', i)
              IN /\ after = Append(drained'[i].rest, drained'[i].id)
                 /\ drained'[i].rest # <<>> =>
                      /\ Head(after) = Head(drained'[i].rest)
                      /\ Head(after) # drained'[i].id]_vars

\* a chunk whose data was requested in an earlier tick and has not arrived was
\* shifted off and sits at the rear, still uninitialized, while the same tick
\* requested or built another chunk
C27_Witness ==
  \E i \in 1..Len(drained) :
    /\ drained[i].isPending
    /\ ~heap[drained[i].id].isInitialized
    /\ dirtyChunks[Len(dirtyChunks)] = drained[i].id
    /\ \E e \in Range(EventsOf({"generate", "data-needed", "drainBuild", "sweepBuild"})) :
         e.id # drained[i].id

\* C28: in every state no chunk occurs twice in the work queue, and every
\* chunk in the queue is the chunk the store holds under its name.
C28_QueueDistinctAndStored ==
  /\ \A i, j \in 1..Len(dirtyChunks) :
       dirtyChunks[i] = dirtyChunks[j] => i = j
  /\ \A i \in 1..Len(dirtyChunks) :
       /\ heap[dirtyChunks[i]].name \in DOMAIN chunks
       /\ chunks[heap[dirtyChunks[i]].name] = dirtyChunks[i]

\* a tick whose fill enqueued chunks in front of an entry that its drain then
\* shifted off and re-appended
C28_Witness ==
  /\ Len(dirtyChunks) >= 2
  /\ IdsOf(Creates) # {}
  /\ \E i \in 1..Len(drained) :
       /\ drained[i].id \notin IdsOf(Creates)
       /\ drained[i].id \in Range(dirtyChunks)
       /\ CountOf(log, {"pop"}, drained[i].id) >= 1

\* C29: after every step each stored chunk that is not initialized is in the
\* work queue, and a chunk that was in the queue and is no longer was shifted
\* off by the drain of a tick, initialized and not pending at that moment, as
\* the last thing that drain did with it.
C29_UninitializedStayQueued ==
  [][/\ \A nm \in DOMAIN chunks' :
          ~heap'[chunks'[nm]].isInitialized =>
            \E i \in 1..Len(dirtyChunks') : dirtyChunks'[i] = chunks'[nm]
     /\ \A id \in Range(dirtyChunks) \ Range(dirtyChunks') :
          /\ ticks' = ticks + 1
          /\ \E i \in 1..Len(drained') :
               /\ drained'[i].id = id
               /\ drained'[i].isInitialized
               /\ ~drained'[i].isPending
               /\ \A j \in (i + 1)..Len(drained') : drained'[j].id # id]_vars

\* a chunk left the queue in the last drain, initialized, while another chunk,
\* not initialized, is still queued
C29_Witness ==
  /\ \E i \in 1..Len(drained) :
       /\ drained[i].isInitialized
       /\ drained[i].id \notin Range(dirtyChunks)
       /\ heap[drained[i].id].name \in DOMAIN chunks
  /\ \E id \in Range(dirtyChunks) : ~heap[id].isInitialized

\* C30: when a tick has run, every coordinate whose squared distance from the
\* camera chunk is at most renderRadius squared holds a chunk in the store,
\* with the renderRadius the tick ran with, also one set on the debug panel
\* since the tick before.
C30_RegionFilledAfterTick ==
  lastOp.op = "tick" =>
    \A p \in Around(camChunkPos, renderRadius) :
      SqDist(p, camChunkPos) <= renderRadius * renderRadius =>
        getChunkName(p) \in DOMAIN chunks

\* a tick ran with a radius larger than that of the fill around its camera
\* chunk, the camera not having left the chunk: the sweep looked up
\* coordinates that hold no chunk
C30_RaisedReached ==
  /\ lastOp.op = "tick"
  /\ ticks >= 2
  /\ Len(EventsOf({"chunk-changed"})) = 0
  /\ \E e \in Range(Sweeps) : e.id = NoChunk

====
